---- MODULE Spec2Model ----
(***************************************************************************)
(* Model of the CelestialVisualizer React component                        *)
(* (src/src/components/celestial-visualizer.tsx; src/unnamed/part_000 is   *)
(* the same component with an extra details footer).                       *)
(*                                                                         *)
(* Numbers.  The component computes in IEEE doubles; the model computes in *)
(* exact fixed point.  Frame timestamps are whole milliseconds.  Simulated *)
(* time is counted in units of 1/100000 day, so that the speed table       *)
(* {1, 7, 30.4, 365.25} days per second is the integer table               *)
(* {100, 700, 3040, 36525} units per millisecond and                       *)
(*     prevTime + ((time - last) / 1000) * speed                           *)
(* is  prevTime + (time - last) * speedLevels[level].                      *)
(*                                                                         *)
(* Scheduling.  A React state setter called from an event handler is       *)
(* followed by the re-render and by the effect clean-up and re-run before  *)
(* the next animation frame is delivered; each handler action below        *)
(* therefore contains the render and the effect it causes.                 *)
(***************************************************************************)
EXTENDS Integers, FiniteSets, Sequences, TLC

VARIABLES
    speedLevel,         \* useState(1): index into speedLevels
    isRotationEnabled,  \* useState(true)
    isPaused,           \* useState(false)
    simulationTime,     \* useState(0): simulated days, in units of 1/100000 day
    animationFrameId,   \* useRef: id of the last requested frame, or Undefined
    lastTimeRef,        \* useRef: timestamp of the previous frame, or Undefined
    animate,            \* the current useCallback closure: what it captured
    rafQueue,           \* the browser's pending animation-frame callbacks
    nextFrameId,        \* the browser's next requestAnimationFrame handle
    mounted,            \* the component is mounted
    now,                \* timestamp of the most recent frame delivered (ms)
    dayOfYear,          \* useMemo value of the last render
    orbitalStatus,      \* getOrbitalStatus(dayOfYear) shown by the last render
    earthRotationAngle, \* rotation angle of the last render, in units of 1/100000 degree
    timeZone,           \* the host's local time zone, in minutes east of UTC
    currentDate,        \* <<year, month, day>> shown by the last render
    lastOp,             \* history: name of the last operation
    pre,                \* history: values read by the last frame callback
    pausedMs            \* history: real time covered by frames delivered while paused

vars == <<speedLevel, isRotationEnabled, isPaused, simulationTime,
          animationFrameId, lastTimeRef, animate, rafQueue, nextFrameId,
          mounted, now, dayOfYear, orbitalStatus, earthRotationAngle, timeZone,
          currentDate, lastOp, pre, pausedMs>>

-----------------------------------------------------------------------------
(* Bounds *)

MaxFrameId == 7         \* requestAnimationFrame handles issued in one run

MaxDeltaSteps == 2      \* a frame arrives 0..MaxDeltaSteps seconds after the previous one

MaxQuarterDays == 2930  \* simulated times tried by the derived-value specification

-----------------------------------------------------------------------------
(* Constants of the component *)

MsPerSecond == 1000

UnitsPerDay == 100 * MsPerSecond

DAYS_IN_YEAR == 36525 * (UnitsPerDay \div 100)

speedLevels == <<100, 700, 3040, 36525>>

Undefined == -1

-----------------------------------------------------------------------------
(* Arithmetic of the host language *)

\* JavaScript a % b for b > 0: the result takes the sign of the dividend.
JsRemainder(a, b) == IF a >= 0 THEN a % b ELSE -((-a) % b)

\* Math.floor of a quantity held in units, in whole days.
MathFloor(x) == x \div UnitsPerDay

-----------------------------------------------------------------------------
(* Derived values computed by a render *)

speed(level) == speedLevels[level + 1]

\* Variant: the modulo is forgotten.
DayOfYear_NoWrap(simTime) == simTime

\* Variant: the year is taken as 365 days.
DayOfYear_CalendarYear(simTime) == JsRemainder(simTime, 365 * UnitsPerDay)

DayOfYear(simTime) == JsRemainder(simTime, DAYS_IN_YEAR)

\* Variant: Spring starts on day 5 (>= for >).
getOrbitalStatus_SpringFromFive(currentDay) ==
    LET day == MathFloor(currentDay) IN
    IF (day >= 0 /\ day < 5) \/ day >= 360 THEN "Vernal Equinox"
    ELSE IF day >= 5 /\ day < 86 THEN "Spring"
    ELSE IF day >= 86 /\ day < 96 THEN "Summer Solstice"
    ELSE IF day > 96 /\ day < 177 THEN "Summer"
    ELSE IF day >= 177 /\ day < 187 THEN "Autumnal Equinox"
    ELSE IF day > 187 /\ day < 268 THEN "Autumn"
    ELSE IF day >= 268 /\ day < 278 THEN "Winter Solstice"
    ELSE IF day > 278 /\ day < 360 THEN "Winter"
    ELSE "In Orbit"

\* Variant: Summer starts on day 96 (>= for >).
getOrbitalStatus_SummerFromNinetySix(currentDay) ==
    LET day == MathFloor(currentDay) IN
    IF (day >= 0 /\ day < 5) \/ day >= 360 THEN "Vernal Equinox"
    ELSE IF day > 5 /\ day < 86 THEN "Spring"
    ELSE IF day >= 86 /\ day < 96 THEN "Summer Solstice"
    ELSE IF day >= 96 /\ day < 177 THEN "Summer"
    ELSE IF day >= 177 /\ day < 187 THEN "Autumnal Equinox"
    ELSE IF day > 187 /\ day < 268 THEN "Autumn"
    ELSE IF day >= 268 /\ day < 278 THEN "Winter Solstice"
    ELSE IF day > 278 /\ day < 360 THEN "Winter"
    ELSE "In Orbit"

getOrbitalStatus(currentDay) ==
    LET day == MathFloor(currentDay) IN
    IF (day >= 0 /\ day < 5) \/ day >= 360 THEN "Vernal Equinox"
    ELSE IF day > 5 /\ day < 86 THEN "Spring"
    ELSE IF day >= 86 /\ day < 96 THEN "Summer Solstice"
    ELSE IF day > 96 /\ day < 177 THEN "Summer"
    ELSE IF day >= 177 /\ day < 187 THEN "Autumnal Equinox"
    ELSE IF day > 187 /\ day < 268 THEN "Autumn"
    ELSE IF day >= 268 /\ day < 278 THEN "Winter Solstice"
    ELSE IF day > 278 /\ day < 360 THEN "Winter"
    ELSE "In Orbit"

\* Dates.  A Date value is held in minutes since 1970-01-01T00:00Z; the local
\* calendar fields of a Date are those of the value shifted by the zone offset.
MinutesPerDay == 24 * 60

\* Day number (days since 1970-01-01) of a proleptic Gregorian date; a day of
\* the month beyond the month's end carries into the following months.
DaysFromCivil(year, month, day) ==
    LET y   == IF month <= 2 THEN year - 1 ELSE year
        era == y \div 400
        yoe == y - era * 400
        mp  == IF month > 2 THEN month - 3 ELSE month + 9
        doy == (153 * mp + 2) \div 5 + day - 1
        doe == yoe * 365 + yoe \div 4 - yoe \div 100 + doy
    IN  era * 146097 + doe - 719468

\* <<year, month, day>> of a day number.
CivilFromDays(z) ==
    LET zz  == z + 719468
        era == zz \div 146097
        doe == zz - era * 146097
        yoe == (doe - doe \div 1460 + doe \div 36524 - doe \div 146096) \div 365
        doy == doe - (365 * yoe + yoe \div 4 - yoe \div 100)
        mp  == (5 * doy + 2) \div 153
        d   == doy - (153 * mp + 2) \div 5 + 1
        m   == IF mp < 10 THEN mp + 3 ELSE mp - 9
        y   == yoe + era * 400
    IN  <<IF m <= 2 THEN y + 1 ELSE y, m, d>>

\* new Date('2024-03-20T00:00:00Z')
START_DATE == DaysFromCivil(2024, 3, 20) * MinutesPerDay

LocalDay(date, zone) == (date + zone) \div MinutesPerDay

LocalMinuteOfDay(date, zone) == (date + zone) % MinutesPerDay

\* date.getDate(): the day of the month in local time
getDate(date, zone) == CivilFromDays(LocalDay(date, zone))[3]

\* date.setDate(v): the local day of the month becomes v, the local year,
\* month and time of day are kept.
setDate(date, zone, v) ==
    LET civil == CivilFromDays(LocalDay(date, zone))
    IN  DaysFromCivil(civil[1], civil[2], v) * MinutesPerDay
            + LocalMinuteOfDay(date, zone) - zone

\* date.toLocaleDateString('en-US', {year, month: 'long', day}): the local
\* calendar date, kept as <<year, month, day>>.
toLocaleDateString(date, zone) == CivilFromDays(LocalDay(date, zone))

\* const date = new Date(START_DATE);
\* date.setDate(date.getDate() + Math.floor(simulationTime));
\* return date.toLocaleDateString(...)
CurrentDate(simTime, zone) ==
    toLocaleDateString(
        setDate(START_DATE, zone, getDate(START_DATE, zone) + MathFloor(simTime)),
        zone)

\* Variant: the rotation switch is not consulted.
RotationAngle_IgnoresSwitch(enabled, simTime) ==
    JsRemainder(JsRemainder(simTime, UnitsPerDay) * 360, 360 * UnitsPerDay)

\* isRotationEnabled ? (simulationTime * 360) % 360 : 0, in units of 1/100000
\* degree.  Whole days contribute whole turns, so the operand is reduced to
\* its part of a day before the multiplication to stay within 32 bits.
RotationAngle(enabled, simTime) ==
    IF enabled
    THEN JsRemainder(JsRemainder(simTime, UnitsPerDay) * 360, 360 * UnitsPerDay)
    ELSE 0

\* The render that follows every state change recomputes the derived values.
Render ==
    /\ dayOfYear' = DayOfYear(simulationTime')
    /\ orbitalStatus' = getOrbitalStatus(DayOfYear(simulationTime'))
    /\ earthRotationAngle' = RotationAngle(isRotationEnabled', simulationTime')
    /\ currentDate' = CurrentDate(simulationTime', timeZone)

-----------------------------------------------------------------------------
(* The frame loop *)

\* useCallback(..., [isPaused, speed]): the closure captures both values.
useCallbackAnimate(paused, level) == [isPaused |-> paused, speed |-> speed(level)]

\* Variant: a long frame gap is clamped to one second.
deltaTime_Clamped(time, last) ==
    IF time - last > MsPerSecond THEN MsPerSecond ELSE time - last

\* Variant: the operands of the subtraction are swapped.
deltaTime_Reversed(time, last) == last - time

\* const deltaTime = (time - lastTimeRef.current) / 1000, kept in milliseconds.
deltaTime(time, last) == time - last

\* Variant: the paused flag is not consulted.
setSimulationTime_IgnoresPause(cb, prevTime, delta) == prevTime + delta * cb.speed

\* if (!isPaused) setSimulationTime(prevTime => prevTime + deltaTime * speed)
setSimulationTime(cb, prevTime, delta) ==
    IF ~cb.isPaused THEN prevTime + delta * cb.speed ELSE prevTime

\* Variant: an undefined reference is read as timestamp 0.
referenceTime_Zero(last, time) == IF last = Undefined THEN 0 ELSE last

\* if (lastTimeRef.current === undefined) lastTimeRef.current = time
referenceTime(last, time) == IF last = Undefined THEN time ELSE last

\* Variant: the reference is recorded only inside the unpaused branch.
recordTime_OnlyUnpaused(cb, last, time) ==
    IF cb.isPaused /\ last # Undefined THEN last ELSE time

\* lastTimeRef.current = time, at the end of every frame callback
recordTime(cb, last, time) == time

\* Variant: the clean-up forgets to cancel the pending frame.
cleanup_NoCancel(queue, id) == queue

\* The effect's clean-up: cancel the frame named by animationFrameId.current.
cleanup(queue, id) ==
    IF id # Undefined /\ id # 0 THEN {f \in queue : f.id # id} ELSE queue

\* requestAnimationFrame(cb): the browser queues cb under a fresh handle.
requestAnimationFrame(queue, cb) == queue \cup {[id |-> nextFrameId, cb |-> cb]}

\* Variant: the clean-up cancels the frame but keeps the reference timestamp.
RunEffect_KeepsReference(newAnimate) ==
    /\ animate' = newAnimate
    /\ IF newAnimate # animate
       THEN /\ nextFrameId <= MaxFrameId
            /\ rafQueue' = requestAnimationFrame(cleanup(rafQueue, animationFrameId), newAnimate)
            /\ animationFrameId' = nextFrameId
            /\ nextFrameId' = nextFrameId + 1
            /\ lastTimeRef' = lastTimeRef
       ELSE UNCHANGED <<rafQueue, animationFrameId, nextFrameId, lastTimeRef>>

\* useEffect(..., [animate]) after a render that produced the closure newAnimate:
\* when the closure changed, clean up the old effect and run the new one.
RunEffect(newAnimate) ==
    /\ animate' = newAnimate
    /\ IF newAnimate # animate
       THEN /\ nextFrameId <= MaxFrameId
            /\ rafQueue' = requestAnimationFrame(cleanup(rafQueue, animationFrameId), newAnimate)
            /\ animationFrameId' = nextFrameId
            /\ nextFrameId' = nextFrameId + 1
            /\ lastTimeRef' = Undefined
       ELSE UNCHANGED <<rafQueue, animationFrameId, nextFrameId, lastTimeRef>>

\* The browser delivers a pending frame: animate(time) runs to completion.
Tick(time) ==
    /\ nextFrameId <= MaxFrameId
    /\ \E f \in rafQueue :
         LET last == referenceTime(lastTimeRef, time)
             delta == deltaTime(time, last)
         IN  /\ simulationTime' = setSimulationTime(f.cb, simulationTime, delta)
             /\ lastTimeRef' = recordTime(f.cb, lastTimeRef, time)
             /\ rafQueue' = requestAnimationFrame(rafQueue \ {f}, f.cb)
             /\ animationFrameId' = nextFrameId
             /\ nextFrameId' = nextFrameId + 1
    /\ now' = time
    /\ pre' = [sim |-> simulationTime, last |-> lastTimeRef, now |-> now,
               paused |-> isPaused, level |-> speedLevel, status |-> orbitalStatus]
    /\ pausedMs' = IF isPaused THEN pausedMs + (time - now) ELSE pausedMs
    /\ lastOp' = "tick"
    /\ UNCHANGED <<speedLevel, isRotationEnabled, isPaused, animate, mounted, timeZone>>
    /\ Render

\* Button onClick: setPaused(!isPaused)
TogglePause ==
    /\ mounted
    /\ isPaused' = ~isPaused
    /\ RunEffect(useCallbackAnimate(isPaused', speedLevel))
    /\ lastOp' = "pause"
    /\ UNCHANGED <<speedLevel, isRotationEnabled, simulationTime, mounted, now, pre, pausedMs, timeZone>>
    /\ Render

\* Slider onValueChange: setSpeedLevel(value[0])
SetSpeedLevel(level) ==
    /\ mounted
    /\ level # speedLevel
    /\ speedLevel' = level
    /\ RunEffect(useCallbackAnimate(isPaused, speedLevel'))
    /\ lastOp' = "speed"
    /\ UNCHANGED <<isPaused, isRotationEnabled, simulationTime, mounted, now, pre, pausedMs, timeZone>>
    /\ Render

\* Switch onCheckedChange: setRotationEnabled
ToggleRotation ==
    /\ mounted
    /\ isRotationEnabled' = ~isRotationEnabled
    /\ RunEffect(useCallbackAnimate(isPaused, speedLevel))
    /\ lastOp' = "rotation"
    /\ UNCHANGED <<speedLevel, isPaused, simulationTime, mounted, now, pre, pausedMs, timeZone>>
    /\ Render

\* The component unmounts: the effect's clean-up runs one last time.
Unmount ==
    /\ mounted
    /\ mounted' = FALSE
    /\ rafQueue' = cleanup(rafQueue, animationFrameId)
    /\ lastTimeRef' = Undefined
    /\ lastOp' = "unmount"
    /\ UNCHANGED <<speedLevel, isRotationEnabled, isPaused, simulationTime,
                   animationFrameId, animate, nextFrameId, now, dayOfYear,
                   orbitalStatus, earthRotationAngle, timeZone, currentDate, pre,
                   pausedMs>>

-----------------------------------------------------------------------------
(* Specifications *)

\* Zones the page may be opened in: five hours west of UTC and five and a
\* half hours east of UTC.
TimeZones == {-(5 * 60), 5 * 60 + 30}

\* The state after the first render and the first run of the effect.
Init ==
    /\ speedLevel = 1
    /\ isRotationEnabled = TRUE
    /\ isPaused = FALSE
    /\ simulationTime = 0
    /\ animate = useCallbackAnimate(FALSE, 1)
    /\ rafQueue = {[id |-> 1, cb |-> useCallbackAnimate(FALSE, 1)]}
    /\ animationFrameId = 1
    /\ nextFrameId = 2
    /\ lastTimeRef = Undefined
    /\ mounted = TRUE
    /\ now = 0
    /\ dayOfYear = DayOfYear(0)
    /\ orbitalStatus = getOrbitalStatus(DayOfYear(0))
    /\ earthRotationAngle = RotationAngle(TRUE, 0)
    /\ timeZone \in TimeZones
    /\ currentDate = CurrentDate(0, timeZone)
    /\ lastOp = "mount"
    /\ pre = [sim |-> 0, last |-> Undefined, now |-> 0, paused |-> FALSE, level |-> 1,
              status |-> getOrbitalStatus(DayOfYear(0))]
    /\ pausedMs = 0

FrameDeltas == {k * MsPerSecond : k \in 0..MaxDeltaSteps}

\* Frames carry the browser's timestamps, which never decrease.
Frame == \E d \in FrameDeltas : Tick(now + d)

ChangeSpeed == \E level \in 0..(Len(speedLevels) - 1) : SetSpeedLevel(level)

Next ==
    \/ Frame
    \/ TogglePause
    \/ ChangeSpeed
    \/ ToggleRotation
    \/ Unmount

Spec == Init /\ [][Next]_vars

\* animate(time) for any number: the callback itself accepts timestamps in
\* any order.
AnyTimes == {k * MsPerSecond : k \in 0..MaxDeltaSteps}

AnyFrame == \E t \in AnyTimes : Tick(t)

NextAnyTime ==
    \/ AnyFrame
    \/ TogglePause
    \/ ChangeSpeed
    \/ ToggleRotation
    \/ Unmount

SpecAnyTime == Init /\ [][NextAnyTime]_vars

\* The derived values as functions of simulationTime: every quarter day of
\* the first MaxQuarterDays quarter days is rendered once.
SimInputs == {k * (UnitsPerDay \div 4) : k \in 0..MaxQuarterDays}

InitOrbital ==
    /\ speedLevel = 1
    /\ isRotationEnabled = TRUE
    /\ isPaused = FALSE
    /\ simulationTime \in SimInputs
    /\ animate = useCallbackAnimate(FALSE, 1)
    /\ rafQueue = {[id |-> 1, cb |-> useCallbackAnimate(FALSE, 1)]}
    /\ animationFrameId = 1
    /\ nextFrameId = 2
    /\ lastTimeRef = Undefined
    /\ mounted = TRUE
    /\ now = 0
    /\ dayOfYear = 0
    /\ orbitalStatus = ""
    /\ earthRotationAngle = 0
    /\ timeZone \in TimeZones
    /\ currentDate = <<>>
    /\ lastOp = "input"
    /\ pre = [sim |-> 0, last |-> Undefined, now |-> 0, paused |-> FALSE, level |-> 1,
              status |-> ""]
    /\ pausedMs = 0

RenderDerived ==
    /\ lastOp = "input"
    /\ lastOp' = "render"
    /\ UNCHANGED <<speedLevel, isRotationEnabled, isPaused, simulationTime,
                   animationFrameId, lastTimeRef, animate, rafQueue, nextFrameId,
                   mounted, now, pre, pausedMs, timeZone>>
    /\ Render

\* One second at 1 Year/s: the update of an unpaused frame callback applied to
\* a rendered simulationTime, followed by the render.
YearLater ==
    /\ lastOp = "render"
    /\ simulationTime' = setSimulationTime(useCallbackAnimate(FALSE, Len(speedLevels) - 1),
                                           simulationTime, MsPerSecond)
    /\ pre' = [pre EXCEPT !.sim = simulationTime, !.status = orbitalStatus]
    /\ lastOp' = "year"
    /\ UNCHANGED <<speedLevel, isRotationEnabled, isPaused, animationFrameId,
                   lastTimeRef, animate, rafQueue, nextFrameId, mounted, now,
                   pausedMs, timeZone>>
    /\ Render

NextOrbital ==
    \/ RenderDerived
    \/ YearLater
    \/ ToggleRotation

SpecOrbital == InitOrbital /\ [][NextOrbital]_vars

-----------------------------------------------------------------------------
(* Properties *)

Ticked == lastOp = "tick"

\* C1: a frame callback that runs while paused is true leaves simulationTime
\* unchanged, whatever real time passed since the previous frame.
C1_PausedTickKeepsTime ==
    (Ticked /\ pre.paused) => simulationTime = pre.sim

C1_Witness ==
    /\ Ticked
    /\ pre.paused
    /\ pre.last # Undefined
    /\ now - pre.last = MaxDeltaSteps * MsPerSecond
    /\ pre.sim > 0

\* C2: a frame callback that runs unpaused with a reference timestamp adds
\* exactly (time - last) / 1000 * speed days: nothing on a zero delta, the
\* whole delta however large, and 14 days for 2 seconds at 7 days per second.
C2_ClockAdvance ==
    (Ticked /\ ~pre.paused /\ pre.last # Undefined) =>
        /\ simulationTime = pre.sim + (now - pre.last) * speedLevels[pre.level + 1]
        /\ (now = pre.last) => simulationTime = pre.sim
        /\ (pre.level = 1 /\ now - pre.last = 2 * MsPerSecond) =>
               simulationTime - pre.sim = 14 * UnitsPerDay

C2_Witness ==
    /\ Ticked
    /\ ~pre.paused
    /\ pre.last # Undefined
    /\ pre.level = 1
    /\ now - pre.last = 2 * MsPerSecond
    /\ simulationTime - pre.sim = 14 * UnitsPerDay

\* C3: a frame callback whose timestamp is not later than the previous one
\* leaves simulationTime unchanged, and simulationTime is never negative.
C3_DefensiveContract ==
    /\ simulationTime >= 0
    /\ (Ticked /\ pre.last # Undefined /\ now <= pre.last) => simulationTime = pre.sim

\* C4: the first frame callback after a start or restart only records its
\* timestamp: simulationTime is unchanged.
C4_FirstTickRecordsOnly ==
    (Ticked /\ pre.last = Undefined) =>
        /\ simulationTime = pre.sim
        /\ lastTimeRef = now

C4_Witness ==
    /\ Ticked
    /\ pre.last = Undefined
    /\ ~pre.paused
    /\ pre.level = 3
    /\ pre.sim > 0
    /\ now > pre.now

\* C5: a paused frame callback still records its timestamp; no frame callback
\* adds more than the real time since the preceding frame times the speed; and
\* simulationTime never exceeds what the real time not covered by paused
\* frames allows at the highest speed.
C5_NoTimeJumpOnResume ==
    /\ (Ticked /\ pre.paused) => lastTimeRef = now
    /\ Ticked => simulationTime - pre.sim <= (now - pre.now) * speedLevels[pre.level + 1]
    /\ simulationTime <= (now - pausedMs) * speedLevels[Len(speedLevels)]

C5_Witness ==
    /\ Ticked
    /\ ~pre.paused
    /\ pausedMs > 0
    /\ simulationTime > pre.sim

\* C6: with non-decreasing frame timestamps simulationTime starts at 0, is
\* never negative and never decreases.
C6_Monotonic ==
    /\ [](simulationTime >= 0)
    /\ [][simulationTime' >= simulationTime]_vars

C6_Witness ==
    /\ simulationTime > pre.sim
    /\ pre.sim > 0
    /\ ~isRotationEnabled
    /\ isPaused
    /\ speedLevel # 1

\* C7: at most one frame callback is pending at any time; after the unmount
\* none is pending and no frame callback runs any more.
C7_OneFrameScopedLoop ==
    /\ Cardinality(rafQueue) <= 1
    /\ ~mounted => (rafQueue = {} /\ lastOp = "unmount")

C7_Witness ==
    /\ ~mounted
    /\ rafQueue = {}
    /\ isPaused
    /\ speedLevel # 1
    /\ simulationTime > 0

\* C8: dayOfYear is simulationTime modulo 365.25 days and lies in [0, 365.25).
C8_DayOfYearRange ==
    /\ dayOfYear = simulationTime % DAYS_IN_YEAR
    /\ dayOfYear >= 0
    /\ dayOfYear < DAYS_IN_YEAR

C8_Witness ==
    /\ simulationTime > DAYS_IN_YEAR
    /\ dayOfYear > 0
    /\ dayOfYear # simulationTime

\* The boundary table of the specification, first matching row wins.
SeasonRows == <<
    [days |-> {d \in 0..365 : (0 <= d /\ d < 5) \/ d >= 360}, label |-> "Vernal Equinox"],
    [days |-> {d \in 0..365 : 5 < d /\ d < 86},               label |-> "Spring"],
    [days |-> {d \in 0..365 : 86 <= d /\ d < 96},             label |-> "Summer Solstice"],
    [days |-> {d \in 0..365 : 96 < d /\ d < 177},             label |-> "Summer"],
    [days |-> {d \in 0..365 : 177 <= d /\ d < 187},           label |-> "Autumnal Equinox"],
    [days |-> {d \in 0..365 : 187 < d /\ d < 268},            label |-> "Autumn"],
    [days |-> {d \in 0..365 : 268 <= d /\ d < 278},           label |-> "Winter Solstice"],
    [days |-> {d \in 0..365 : 278 < d /\ d < 360},            label |-> "Winter"] >>

RECURSIVE FirstMatch(_, _)
FirstMatch(i, d) ==
    IF i > Len(SeasonRows) THEN "In Orbit"
    ELSE IF d \in SeasonRows[i].days THEN SeasonRows[i].label
    ELSE FirstMatch(i + 1, d)

Rendered == lastOp = "render"

\* C9: the label shown is the label of the first matching row of the table
\* for d = floor(dayOfYear), "In Orbit" when no row matches; days 0, 91, 182
\* and 273 show the two equinoxes and the two solstices.
C9_SeasonalPhaseTable ==
    Rendered =>
        LET d == MathFloor(dayOfYear) IN
        /\ d \in 0..365
        /\ orbitalStatus = FirstMatch(1, d)
        /\ (d = 0) => orbitalStatus = "Vernal Equinox"
        /\ (d = 91) => orbitalStatus = "Summer Solstice"
        /\ (d = 182) => orbitalStatus = "Autumnal Equinox"
        /\ (d = 273) => orbitalStatus = "Winter Solstice"

C9_Witness ==
    /\ Rendered
    /\ simulationTime > DAYS_IN_YEAR
    /\ MathFloor(dayOfYear) = 91
    /\ orbitalStatus = "Summer Solstice"

\* C10 as stated: day 5 is the only boundary day shown as "In Orbit"; days
\* 86, 96, 177, 187, 268 and 278 each show a named phase.
C10_OnlyDayFiveFallsThrough ==
    Rendered =>
        LET d == MathFloor(dayOfYear) IN
        /\ (d = 5) => orbitalStatus = "In Orbit"
        /\ (d \in {86, 96, 177, 187, 268, 278}) => orbitalStatus # "In Orbit"

\* C10 as amended: exactly days 5, 96, 187 and 278 are shown as "In Orbit";
\* the boundary days 86, 177 and 268 each show a named phase.
C10_FourDaysFallThrough ==
    Rendered =>
        LET d == MathFloor(dayOfYear) IN
        /\ (orbitalStatus = "In Orbit") <=> (d \in {5, 96, 187, 278})
        /\ (d = 86) => orbitalStatus = "Summer Solstice"
        /\ (d = 177) => orbitalStatus = "Autumnal Equinox"
        /\ (d = 268) => orbitalStatus = "Winter Solstice"

C10_Witness ==
    /\ Rendered
    /\ MathFloor(dayOfYear) = 187
    /\ orbitalStatus = "In Orbit"

\* C11: the seasonal phase shown for a simulated time is the phase shown
\* 365.25 days later.
C11_SeasonalPhasePeriodic ==
    (lastOp = "year") =>
        /\ simulationTime = pre.sim + DAYS_IN_YEAR
        /\ orbitalStatus = pre.status

C11_Witness ==
    /\ lastOp = "year"
    /\ pre.sim > DAYS_IN_YEAR
    /\ MathFloor(dayOfYear) = 96
    /\ orbitalStatus = "In Orbit"
    /\ pre.status = "In Orbit"

\* C12: with rotation enabled the angle is 360 degrees times the part of a
\* day of simulationTime, in [0, 360): 180 at 0.5 days and 0 at 1.0 days; with
\* rotation disabled it is 0; toggling rotation changes nothing but the angle.
C12_RotationAngle ==
    /\ [](lastOp # "input" =>
            /\ isRotationEnabled =>
                 earthRotationAngle =
                     360 * (simulationTime - MathFloor(simulationTime) * UnitsPerDay)
            /\ earthRotationAngle >= 0
            /\ earthRotationAngle < 360 * UnitsPerDay
            /\ (isRotationEnabled /\ simulationTime = UnitsPerDay \div 2) =>
                 earthRotationAngle = 180 * UnitsPerDay
            /\ (isRotationEnabled /\ simulationTime = UnitsPerDay) =>
                 earthRotationAngle = 0
            /\ ~isRotationEnabled => earthRotationAngle = 0)
    /\ [][(isRotationEnabled' # isRotationEnabled /\ lastOp # "input") =>
            UNCHANGED <<speedLevel, isPaused, simulationTime, animationFrameId,
                        lastTimeRef, animate, rafQueue, nextFrameId, mounted,
                        now, dayOfYear, orbitalStatus>>]_vars

C12_Witness ==
    /\ lastOp = "rotation"
    /\ isRotationEnabled
    /\ simulationTime = UnitsPerDay \div 2
    /\ earthRotationAngle = 180 * UnitsPerDay
    /\ orbitalStatus = "Vernal Equinox"


\* C13: the date shown is 2024-03-20 plus floor(simulationTime) whole days:
\* 2024-03-20 at 0 days and 2024-09-18 at 182 days.
C13_CalendarDate ==
    (lastOp # "input") =>
        /\ currentDate =
               CivilFromDays(DaysFromCivil(2024, 3, 20) + MathFloor(simulationTime))
        /\ (simulationTime = 0) => currentDate = <<2024, 3, 20>>
        /\ (simulationTime = 182 * UnitsPerDay) => currentDate = <<2024, 9, 18>>


\* C14: a change of the speed level or of the paused flag leaves
\* simulationTime alone, clears the reference timestamp and replaces the
\* pending frame by a newly requested one; the first frame callback after such
\* a change adds nothing, whatever real time passed since the frame before the
\* change; toggling rotation keeps the reference timestamp and the pending frame.
C14_ControlChangeRestartsLoop ==
    /\ [][(isPaused' # isPaused \/ speedLevel' # speedLevel) =>
            /\ simulationTime' = simulationTime
            /\ lastTimeRef' = Undefined
            /\ rafQueue' = {[id |-> nextFrameId, cb |-> animate']}
            /\ rafQueue' # rafQueue]_vars
    /\ [][(lastOp \in {"pause", "speed"} /\ lastOp' = "tick") =>
            /\ lastTimeRef = Undefined
            /\ simulationTime' = simulationTime]_vars
    /\ [][(isRotationEnabled' # isRotationEnabled) =>
            /\ lastTimeRef' = lastTimeRef
            /\ rafQueue' = rafQueue]_vars

C14_Witness ==
    /\ Ticked
    /\ pre.last = Undefined
    /\ pre.level = 0
    /\ ~pre.paused
    /\ pre.sim > 0
    /\ now - pre.now = MaxDeltaSteps * MsPerSecond
    /\ simulationTime = pre.sim

====
